---- MODULE Spec2Model ----
(***************************************************************************)
(* Retrieval-reflection-iteration workflow (agent/rag) and the             *)
(* high-availability vector store wrapper (agent/vector_store/ha_store).   *)
(*                                                                         *)
(* Scores are integers in hundredths (0.4 is 40, 0.75 x s is 3*s/4).       *)
(* An "ordered mapping" (a Python dict) is a sequence of [k, v] records    *)
(* in insertion order.                                                     *)
(***************************************************************************)
EXTENDS Integers, Sequences, FiniteSets, TLC

(***************************************************************************)
(* Bounds of the model                                                     *)
(***************************************************************************)
MaxIterBound == 1        \* max_iterations ranges over 0..MaxIterBound
MaxSubQueries == 2       \* lines of one decomposition response
MaxRuns == MaxSubQueries + 1   \* retrieve_runs counts up to MaxRuns
MaxHits == 1             \* hits of one vector search
MaxFilterHits == 3       \* hits of one vector search, filter taken alone
MaxRerankInput == 4      \* retrieved chunks, rerank taken alone
MaxChunks == 2           \* chunks of one add_documents call on a backend adapter
MaxTopK == 2             \* top_k of one search call on a backend adapter
MaxLineLen == 4          \* characters of one response line, parsing taken alone

(***************************************************************************)
(* Program constants                                                       *)
(***************************************************************************)
rerank_top_k == 3
similarity_threshold == 40
DynamicFloor == 30
DynamicRatioNum == 3
DynamicRatioDen == 4
FingerprintLen == 100
batch_size == 100

(***************************************************************************)
(* Inputs: texts, hits, responses                                          *)
(***************************************************************************)
QueryTexts == {"q0", "q1"}
LineTexts == {"a", "b"}
\* A text is a sequence of runs [ch, n]: the character ch, n times, adjacent
\* runs of different characters.
Run(c, k) == [ch |-> c, n |-> k]
\* x^100 1 and x^100 2 have their first 100 characters in common; x^99 1 has not
HitPool == << [content |-> << Run("x", 100), Run("1", 1) >>, score |-> 90],
              [content |-> << Run("x", 99), Run("1", 1) >>, score |-> 60],
              [content |-> << Run("x", 100), Run("2", 1) >>, score |-> 35] >>
WebResultPool == { <<>>, <<"w1">> }

Min(a, b) == IF a < b THEN a ELSE b
Max(a, b) == IF a > b THEN a ELSE b
Range(s) == {s[i] : i \in DOMAIN s}
Prefix(s, n) == SubSeq(s, 1, Min(n, Len(s)))

\* subsequences of HitPool (a search returns distinct hits by descending score)
RECURSIVE SubSeqsOf(_)
SubSeqsOf(s) ==
  IF s = <<>> THEN { <<>> }
  ELSE LET rest == SubSeqsOf(Tail(s))
       IN  rest \cup { <<Head(s)>> \o r : r \in rest }
SearchOutcomes == { h \in SubSeqsOf(HitPool) : Len(h) <= MaxHits }

\* the lines of a decomposition response ("" is a blank line)
ResponseLines == UNION { [1..n -> LineTexts \cup {""}] : n \in 0..MaxSubQueries }

NumBackups == 2          \* backups of the HA store
NumRequests == 2         \* concurrent requests on the HA store

VARIABLES
  \* workflow state (rag/state.py) and interpreter position
  pc,                 \* node the interpreter runs next ("END" after the last)
  last_node,          \* node the interpreter ran last ("START" before the first)
  step_parity,        \* parity of the interpreter's step counter, when counted
  query, sub_queries, sub_query_results,
  retrieved_chunks, retrieval_scores, reranked_chunks,
  web_search_results, use_web_search,
  needs_iteration, iteration_count, final_answer,
  max_iterations, enable_reflection,
  prompt_chunks,      \* chunks_to_use of the last generate_answer
  retrieve_runs,      \* retrieve executions since the last decompose_query
  history,            \* what the run has done so far (see InitHistory)
  \* HA store (vector_store/ha_store.py) and its backends
  healthy,            \* healthy[b]: what backend b's health_check returns
  current_store,      \* self.current_store
  last_op,            \* the HA-store call that completed last
  ret,                \* its outcome
  served,             \* backend its read or write was issued to
  writes,             \* writes[b]: write calls it issued to backend b
  rep_failed,         \* backends whose replicated write raised
  \* concurrent requests on the HA store
  rpc,                \* rpc[r]: position of request r inside its call
  rop,                \* rop[r]: the call request r runs
  rstore,             \* rstore[r]: its local variable store
  rscan,              \* rscan[r]: its position in for backup in self.backups
  \* one call of a function or of a backend adapter, taken alone
  fn_name,            \* the function called last ("none" before the first)
  fn_args,            \* its arguments and the outcomes of the calls it makes
  fn_out              \* what it returned, and what it left in the backend

ragVars == << pc, last_node, step_parity, query, sub_queries, sub_query_results,
              retrieved_chunks, retrieval_scores, reranked_chunks,
              web_search_results, use_web_search,
              needs_iteration, iteration_count, final_answer,
              max_iterations, enable_reflection, prompt_chunks, retrieve_runs,
              history >>
opVars == << last_op, ret, served, writes, rep_failed >>
reqVars == << rpc, rop, rstore, rscan >>
storeVars == << healthy, current_store >>
callVars == << fn_name, fn_args, fn_out >>
vars == << ragVars, storeVars, opVars, reqVars, callVars >>

(***************************************************************************)
(* Ordered mapping helpers (dict)                                          *)
(***************************************************************************)
Keys(m) == { m[i].k : i \in DOMAIN m }
Put(m, key, val) ==
  IF key \in Keys(m)
  THEN [ i \in DOMAIN m |-> IF m[i].k = key THEN [k |-> key, v |-> val] ELSE m[i] ]
  ELSE Append(m, [k |-> key, v |-> val])

RECURSIVE Flatten(_)
Flatten(m) == IF m = <<>> THEN <<>> ELSE Head(m).v \o Flatten(Tail(m))

Scores(chunks) == [ i \in DOMAIN chunks |-> chunks[i].score ]

\* The interpreter numbers the steps it runs. counted: the parity of that
\* number is kept in the state, which tells a node that runs again and again
\* without changing the workflow state from a workflow that has stopped.
Step(counted) ==
  step_parity' = IF counted THEN 1 - step_parity ELSE step_parity

\* The record of a run: refine_runs and decompose_runs count the executions
\* of the two nodes; round_node is the one of rerank and web_search that ran
\* since the last decompose_query ("none" before it runs); rounds_empty: every
\* aggregation so far gave zero chunks; reflect_ok: every llm.invoke of
\* reflect so far returned.
InitHistory ==
  [refine_runs |-> 0, decompose_runs |-> 0, round_node |-> "none",
   rounds_empty |-> TRUE, reflect_ok |-> TRUE]

(***************************************************************************)
(* Routers (rag/graph.py)                                                  *)
(***************************************************************************)
\* variant: "or" in place of "and"
should_continue_reflection_or(ni, ic, mx) ==
  IF ni \/ ic < mx THEN "refine_query" ELSE "generate_answer"

should_continue_reflection(ni, ic, mx) ==
  IF ni /\ ic < mx THEN "refine_query" ELSE "generate_answer"

should_continue_retrieve(sq, sqr, rc, uws) ==
  IF sq # <<>> /\ Len(sqr) < Len(sq) THEN "retrieve"
  ELSE IF sq # <<>> /\ Len(sqr) >= Len(sq) THEN "aggregate_results"
  ELSE IF sq = <<>> /\ rc # <<>>
       THEN (IF uws \/ Len(rc) = 0 THEN "web_search" ELSE "rerank")
  ELSE "web_search"

rerank_or_web_search(rc, uws) ==
  IF uws \/ Len(rc) = 0 THEN "web_search" ELSE "rerank"

(***************************************************************************)
(* decompose_query (rag/nodes.py)                                          *)
(***************************************************************************)
\* The workflow sees a response line as the text left of it by the line
\* loop below ("" when nothing is left); parse_response is that loop on the
\* characters of the lines.
ParseSubQueries(lines) == SelectSeq(lines, LAMBDA l : l # "")

\* characters of a line: a digit, the two punctuation marks of the pattern,
\* a blank, and a letter
Digits == {"1"}
Whitespace == {" "}
LineChars == Digits \cup {".", ")"} \cup Whitespace \cup {"a"}

\* the longest prefix of chars in set removed
RECURSIVE DropLeading(_, _)
DropLeading(line, set) ==
  IF line # <<>> /\ Head(line) \in set THEN DropLeading(Tail(line), set) ELSE line

\* the longest suffix of chars in set removed
RECURSIVE DropTrailing(_, _)
DropTrailing(line, set) ==
  IF line # <<>> /\ line[Len(line)] \in set
  THEN DropTrailing(SubSeq(line, 1, Len(line) - 1), set)
  ELSE line

\* line.strip()
Strip(line) == DropTrailing(DropLeading(line, Whitespace), Whitespace)

\* re.sub(r'^[\d\.\)\s]+', '', line)
RemoveNumbering(line) ==
  DropLeading(line, Digits \cup {".", ")"} \cup Whitespace)

\* the loop over response.split('\n'): the sub-queries of a response. The
\* response.strip() before it removes blanks that line.strip() removes too.
parse_response(lines) ==
  LET cleaned == [ i \in DOMAIN lines |->
                     IF Strip(lines[i]) = <<>> THEN <<>>
                     ELSE RemoveNumbering(Strip(lines[i])) ]
  IN  SelectSeq(cleaned, LAMBDA l : l # <<>>)

\* variant: no fallback when the LLM call fails
decompose_result_failempty(q, llm_ok, lines) ==
  IF llm_ok /\ ParseSubQueries(lines) # <<>> THEN ParseSubQueries(lines)
  ELSE IF llm_ok THEN <<q>> ELSE <<>>

\* variant: no fallback when the response has no non-empty line
decompose_result_nofallback(q, llm_ok, lines) ==
  IF llm_ok THEN ParseSubQueries(lines) ELSE <<q>>

decompose_result(q, llm_ok, lines) ==
  IF llm_ok /\ ParseSubQueries(lines) # <<>> THEN ParseSubQueries(lines) ELSE <<q>>

\* llm_ok: llm.invoke returns, its response having the given lines
decompose_query_call(counted, llm_ok, lines) ==
  /\ pc = "decompose_query"
  /\ sub_queries' = decompose_result(query, llm_ok, lines)
  /\ sub_query_results' = <<>>
  /\ retrieve_runs' = 0
  /\ history' = [history EXCEPT !.decompose_runs = @ + 1, !.round_node = "none"]
  /\ pc' = "retrieve"
  /\ last_node' = "decompose_query"
  /\ Step(counted)
  /\ UNCHANGED << storeVars, opVars, reqVars, callVars >>
  /\ UNCHANGED << prompt_chunks, query, retrieved_chunks, retrieval_scores, reranked_chunks,
                  web_search_results, use_web_search, needs_iteration,
                  iteration_count, final_answer, max_iterations, enable_reflection >>

decompose_query(counted) ==
  \E llm_ok \in BOOLEAN, lines \in ResponseLines :
    decompose_query_call(counted, llm_ok, lines)

(***************************************************************************)
(* aggregate_results (rag/nodes.py)                                        *)
(***************************************************************************)
\* text[:k]
RECURSIVE TakeChars(_, _)
TakeChars(text, k) ==
  IF text = <<>> \/ k <= 0 THEN <<>>
  ELSE IF Head(text).n <= k
       THEN << Head(text) >> \o TakeChars(Tail(text), k - Head(text).n)
       ELSE << Run(Head(text).ch, k) >>

\* variant: the whole content in place of its first 100 characters
Fingerprint_whole(content) == content

\* hash(chunk['content'][:100]); equal prefixes have equal hashes, and two
\* different prefixes are taken to have different hashes
Fingerprint(content) == TakeChars(content, FingerprintLen)

RECURSIVE DedupFrom(_, _)
DedupFrom(chunks, seen) ==
  IF chunks = <<>> THEN <<>>
  ELSE IF Fingerprint(Head(chunks).content) \in seen
       THEN DedupFrom(Tail(chunks), seen)
       ELSE <<Head(chunks)>> \o
            DedupFrom(Tail(chunks), seen \cup {Fingerprint(Head(chunks).content)})

\* variant: use_web_search is not part of the update
aggregate_update_keepflag(sq, sqr, rc, rs, uws) ==
  IF sq = <<>> \/ sqr = <<>>
  THEN [rc |-> rc, rs |-> rs, uws |-> uws]
  ELSE LET unique == DedupFrom(Flatten(sqr), {})
       IN  [rc |-> unique, rs |-> Scores(unique), uws |-> uws]

\* the partial update aggregate_results returns, applied to the three fields
aggregate_update(sq, sqr, rc, rs, uws) ==
  IF sq = <<>> \/ sqr = <<>>
  THEN [rc |-> rc, rs |-> rs, uws |-> uws]
  ELSE LET unique == DedupFrom(Flatten(sqr), {})
       IN  [rc |-> unique, rs |-> Scores(unique), uws |-> (Len(unique) = 0)]

aggregate_results(counted) ==
  /\ pc = "aggregate_results"
  /\ LET u == aggregate_update(sub_queries, sub_query_results,
                               retrieved_chunks, retrieval_scores, use_web_search)
     IN  /\ retrieved_chunks' = u.rc
         /\ retrieval_scores' = u.rs
         /\ use_web_search' = u.uws
         /\ pc' = rerank_or_web_search(u.rc, u.uws)
         /\ history' = [history EXCEPT !.rounds_empty = @ /\ u.rc = <<>>]
  /\ last_node' = "aggregate_results"
  /\ Step(counted)
  /\ UNCHANGED << storeVars, opVars, reqVars, callVars >>
  /\ UNCHANGED << prompt_chunks, retrieve_runs, query, sub_queries, sub_query_results, reranked_chunks,
                  web_search_results, needs_iteration, iteration_count,
                  final_answer, max_iterations, enable_reflection >>

(***************************************************************************)
(* retrieve (rag/nodes.py)                                                 *)
(***************************************************************************)
ToChunks(hits, cq) ==
  [ i \in DOMAIN hits |->
      [content |-> hits[i].content, score |-> hits[i].score, sub_query |-> cq] ]

MaxScore(hits) ==
  CHOOSE s \in {hits[i].score : i \in DOMAIN hits} :
    \A i \in DOMAIN hits : s >= hits[i].score

\* variant: the smaller of the two in place of the larger
dynamic_threshold_scaled_min(hits) ==
  Min(DynamicRatioNum * MaxScore(hits), DynamicRatioDen * DynamicFloor)

\* dynamic_threshold = max(max_score * 0.75, 0.3), multiplied by
\* DynamicRatioDen to stay in the integers. The product is exact here; the
\* rounding of the floating-point product max_score * 0.75 is not modelled.
dynamic_threshold_scaled(hits) ==
  Max(DynamicRatioNum * MaxScore(hits), DynamicRatioDen * DynamicFloor)

\* hits kept by the static threshold, else by the dynamic threshold
FilterHits(hits, thr) ==
  LET static == SelectSeq(hits, LAMBDA h : h.score >= thr)
  IN  IF Len(static) = 0 /\ Len(hits) > 0
      THEN SelectSeq(hits, LAMBDA h :
             DynamicRatioDen * h.score >= dynamic_threshold_scaled(hits))
      ELSE static

\* variant: processed sub-queries stay in the list
RemainingQueries_all(sq, sqr) == sq

\* variant: the last unprocessed sub-query first
RemainingQueries_rev(sq, sqr) ==
  LET r == SelectSeq(sq, LAMBDA s : s \notin Keys(sqr))
  IN  [ i \in DOMAIN r |-> r[Len(r) + 1 - i] ]

\* remaining_queries
RemainingQueries(sq, sqr) == SelectSeq(sq, LAMBDA s : s \notin Keys(sqr))

\* The state after one retrieve call. sub_query_results is the dict object of
\* the state itself, so the assignment sub_query_results[current_query] = ...
\* is visible to aggregate_results(state) and stays in the state.
retrieve_update(q, sq, sqr, rc, rs, uws, search_ok, hits) ==
  LET same == [sqr |-> sqr, rc |-> rc, rs |-> rs, uws |-> uws]
      has_pending == sq # <<>> /\ Len(sqr) < Len(sq)
      remaining == RemainingQueries(sq, sqr)
      current_query == IF has_pending THEN remaining[1] ELSE q
  IN  IF has_pending /\ remaining = <<>>
      THEN LET a == aggregate_update(sq, sqr, rc, rs, uws)
           IN  [sqr |-> sqr, rc |-> a.rc, rs |-> a.rs, uws |-> a.uws]
      ELSE IF search_ok
      THEN LET chunks == ToChunks(FilterHits(hits, similarity_threshold), current_query)
           IN  IF sq # <<>>
               THEN [same EXCEPT !.sqr = Put(sqr, current_query, chunks)]
               ELSE [sqr |-> sqr, rc |-> chunks, rs |-> Scores(chunks),
                     uws |-> (Len(chunks) = 0)]
      ELSE IF sq # <<>>
           THEN LET m == Put(sqr, current_query, <<>>)
                    a == aggregate_update(sq, m, rc, rs, uws)
                IN  IF Len(m) >= Len(sq)
                    THEN [sqr |-> m, rc |-> a.rc, rs |-> a.rs, uws |-> a.uws]
                    ELSE [same EXCEPT !.sqr = m]
           ELSE [sqr |-> sqr, rc |-> <<>>, rs |-> <<>>, uws |-> TRUE]

\* search_ok: embed_query and vector_store.search return, the search with
\* the given hits; else one of them raises
retrieve_call(counted, search_ok, hits) ==
  /\ pc = "retrieve"
  /\ LET u == retrieve_update(query, sub_queries, sub_query_results,
                              retrieved_chunks, retrieval_scores,
                              use_web_search, search_ok, hits)
     IN  /\ sub_query_results' = u.sqr
         /\ retrieved_chunks' = u.rc
         /\ retrieval_scores' = u.rs
         /\ use_web_search' = u.uws
         /\ pc' = should_continue_retrieve(sub_queries, u.sqr, u.rc, u.uws)
  /\ retrieve_runs' = Min(retrieve_runs + 1, MaxRuns)
  /\ UNCHANGED history
  /\ last_node' = "retrieve"
  /\ Step(counted)
  /\ UNCHANGED << storeVars, opVars, reqVars, callVars >>
  /\ UNCHANGED << prompt_chunks, query, sub_queries, reranked_chunks, web_search_results,
                  needs_iteration, iteration_count, final_answer,
                  max_iterations, enable_reflection >>

retrieve(counted) ==
  \E search_ok \in BOOLEAN, hits \in SearchOutcomes :
    retrieve_call(counted, search_ok, hits)

(***************************************************************************)
(* rerank (rag/nodes.py)                                                   *)
(***************************************************************************)
\* a comma-separated token of the ranking response: isdigit() holds or not
RankTokens == { [numeric |-> FALSE, value |-> 0] } \cup
              { [numeric |-> TRUE, value |-> n] : n \in {1, 2, 7} }
MaxRankTokens == 2
RankResponses == UNION { [1..n -> RankTokens] : n \in 0..MaxRankTokens }

\* ascending list of the positions 0..n-1 not in used
RECURSIVE AscendingNotIn(_, _, _)
AscendingNotIn(i, n, used) ==
  IF i >= n THEN <<>>
  ELSE (IF i \in used THEN <<>> ELSE <<i>>) \o AscendingNotIn(i + 1, n, used)

rerank_order(rc, tokens) ==
  LET numeric == SelectSeq(tokens, LAMBDA t : t.numeric)
      indices == [ i \in DOMAIN numeric |-> numeric[i].value - 1 ]
      valid_indices == SelectSeq(indices, LAMBDA i : 0 <= i /\ i < Len(rc))
      order == valid_indices \o AscendingNotIn(0, Len(rc), Range(valid_indices))
  IN  IF valid_indices # <<>>
      THEN [ i \in DOMAIN order |-> rc[order[i] + 1] ]
      ELSE rc

\* variant: the fallback of a failed call is not truncated
rerank_result_untruncated(rc, enabled, llm_ok, tokens) ==
  IF rc = <<>> \/ ~enabled THEN rc
  ELSE IF llm_ok THEN Prefix(rerank_order(rc, tokens), rerank_top_k)
  ELSE rc

rerank_result(rc, enabled, llm_ok, tokens) ==
  IF rc = <<>> \/ ~enabled THEN rc
  ELSE IF llm_ok THEN Prefix(rerank_order(rc, tokens), rerank_top_k)
  ELSE Prefix(rc, rerank_top_k)

\* reranked_chunks is declared Annotated[List, add]: the interpreter merges a
\* node's value into the field with operator.add (list concatenation)
rerank(counted) ==
  /\ pc = "rerank"
  /\ \E llm_ok \in BOOLEAN, tokens \in RankResponses :
       reranked_chunks' = reranked_chunks \o
           rerank_result(retrieved_chunks, enable_reflection, llm_ok, tokens)
  /\ pc' = "reflect"
  /\ last_node' = "rerank"
  /\ history' = [history EXCEPT !.round_node = "rerank"]
  /\ Step(counted)
  /\ UNCHANGED << storeVars, opVars, reqVars, callVars >>
  /\ UNCHANGED << prompt_chunks, retrieve_runs, query, sub_queries, sub_query_results, retrieved_chunks,
                  retrieval_scores, web_search_results, use_web_search,
                  needs_iteration, iteration_count, final_answer,
                  max_iterations, enable_reflection >>

(***************************************************************************)
(* web_search (rag/nodes.py)                                               *)
(***************************************************************************)
WebOutcomes == {"import_error", "no_api_key", "raised", "ok"}

web_search_result(uws, outcome, results) ==
  IF ~uws THEN <<>>
  ELSE IF outcome = "ok" THEN results
  ELSE <<>>

\* outcome: what happens once use_web_search is seen to be set
web_search_call(counted, outcome, results) ==
  /\ pc = "web_search"
  /\ web_search_results' = web_search_result(use_web_search, outcome, results)
  /\ pc' = "reflect"
  /\ last_node' = "web_search"
  /\ history' = [history EXCEPT !.round_node = "web_search"]
  /\ Step(counted)
  /\ UNCHANGED << storeVars, opVars, reqVars, callVars >>
  /\ UNCHANGED << prompt_chunks, retrieve_runs, query, sub_queries, sub_query_results, retrieved_chunks,
                  retrieval_scores, reranked_chunks, use_web_search,
                  needs_iteration, iteration_count, final_answer,
                  max_iterations, enable_reflection >>

web_search(counted) ==
  \E outcome \in WebOutcomes, results \in WebResultPool :
    web_search_call(counted, outcome, results)

(***************************************************************************)
(* reflect (rag/nodes.py)                                                  *)
(***************************************************************************)
\* marker: the response contains one of the insufficiency markers
\* variant: the iteration budget is not looked at
reflect_result_nobound(enabled, llm_ok, marker, rc, ic, mx) ==
  IF ~enabled THEN FALSE
  ELSE IF llm_ok THEN marker \/ Len(rc) = 0
  ELSE FALSE

\* variant: an empty retrieval does not ask for another iteration
reflect_result_markeronly(enabled, llm_ok, marker, rc, ic, mx) ==
  IF ~enabled THEN FALSE
  ELSE IF llm_ok THEN marker /\ ic < mx
  ELSE FALSE

reflect_result(enabled, llm_ok, marker, rc, ic, mx) ==
  IF ~enabled THEN FALSE
  ELSE IF llm_ok THEN (marker \/ Len(rc) = 0) /\ ic < mx
  ELSE FALSE

\* llm_ok: llm.invoke returns; marker: its response has one of the markers
reflect_call(counted, llm_ok, marker) ==
  /\ pc = "reflect"
  /\ needs_iteration' = reflect_result(enable_reflection, llm_ok, marker,
                              retrieved_chunks, iteration_count, max_iterations)
  /\ pc' = should_continue_reflection(needs_iteration', iteration_count,
                                      max_iterations)
  /\ last_node' = "reflect"
  /\ history' = [history EXCEPT !.reflect_ok = @ /\ (enable_reflection => llm_ok)]
  /\ Step(counted)
  /\ UNCHANGED << storeVars, opVars, reqVars, callVars >>
  /\ UNCHANGED << prompt_chunks, retrieve_runs, query, sub_queries, sub_query_results, retrieved_chunks,
                  retrieval_scores, reranked_chunks, web_search_results,
                  use_web_search, iteration_count, final_answer,
                  max_iterations, enable_reflection >>

reflect(counted) ==
  \E llm_ok \in BOOLEAN, marker \in BOOLEAN : reflect_call(counted, llm_ok, marker)

(***************************************************************************)
(* refine_query (rag/nodes.py)                                             *)
(***************************************************************************)
\* variant: the counter is advanced twice per refinement
refine_query_twice(counted) ==
  /\ pc = "refine_query"
  /\ \E llm_ok \in BOOLEAN, refined \in QueryTexts :
       query' = IF llm_ok THEN refined ELSE query
  /\ iteration_count' = iteration_count + 2
  /\ pc' = "decompose_query"
  /\ last_node' = "refine_query"
  /\ history' = [history EXCEPT !.refine_runs = @ + 1]
  /\ Step(counted)
  /\ UNCHANGED << storeVars, opVars, reqVars, callVars >>
  /\ UNCHANGED << prompt_chunks, retrieve_runs, sub_queries, sub_query_results, retrieved_chunks,
                  retrieval_scores, reranked_chunks, web_search_results,
                  use_web_search, needs_iteration, final_answer,
                  max_iterations, enable_reflection >>

\* variant: a failed call overwrites the query as well
refine_result_overwrites(q, llm_ok, refined) == refined

\* the query after refine_query; llm_ok: llm.invoke returns the text refined
refine_result(q, llm_ok, refined) == IF llm_ok THEN refined ELSE q

refine_query_call(counted, llm_ok, refined) ==
  /\ pc = "refine_query"
  /\ query' = refine_result(query, llm_ok, refined)
  /\ iteration_count' = iteration_count + 1
  /\ pc' = "decompose_query"
  /\ last_node' = "refine_query"
  /\ history' = [history EXCEPT !.refine_runs = @ + 1]
  /\ Step(counted)
  /\ UNCHANGED << storeVars, opVars, reqVars, callVars >>
  /\ UNCHANGED << prompt_chunks, retrieve_runs, sub_queries, sub_query_results, retrieved_chunks,
                  retrieval_scores, reranked_chunks, web_search_results,
                  use_web_search, needs_iteration, final_answer,
                  max_iterations, enable_reflection >>

refine_query(counted) ==
  \E llm_ok \in BOOLEAN, refined \in QueryTexts :
    refine_query_call(counted, llm_ok, refined)

(***************************************************************************)
(* generate_answer (rag/nodes.py)                                          *)
(***************************************************************************)
\* variant: the retrieved chunks whenever there are any
chunks_to_use_retrieved(rr, rc) == IF rc # <<>> THEN rc ELSE rr

\* state.get('reranked_chunks', []) or state.get('retrieved_chunks', [])
chunks_to_use(rr, rc) == IF rr # <<>> THEN rr ELSE rc

\* variant: a failed LLM call is not caught and ends the run
generate_answer_raises(counted) ==
  /\ pc = "generate_answer"
  /\ \E llm_ok \in BOOLEAN :
       /\ final_answer' = IF llm_ok THEN "answer" ELSE final_answer
       /\ pc' = IF llm_ok THEN "END" ELSE "RAISED"
  /\ prompt_chunks' = chunks_to_use(reranked_chunks, retrieved_chunks)
  /\ last_node' = "generate_answer"
  /\ UNCHANGED history
  /\ Step(counted)
  /\ UNCHANGED << storeVars, opVars, reqVars, callVars >>
  /\ UNCHANGED << retrieve_runs, query, sub_queries, sub_query_results, retrieved_chunks,
                  retrieval_scores, reranked_chunks, web_search_results,
                  use_web_search, needs_iteration, iteration_count,
                  max_iterations, enable_reflection >>

generate_answer(counted) ==
  /\ pc = "generate_answer"
  /\ \E llm_ok \in BOOLEAN :
       final_answer' = IF llm_ok THEN "answer" ELSE "generation error"
  /\ prompt_chunks' = chunks_to_use(reranked_chunks, retrieved_chunks)
  /\ pc' = "END"
  /\ last_node' = "generate_answer"
  /\ UNCHANGED history
  /\ Step(counted)
  /\ UNCHANGED << storeVars, opVars, reqVars, callVars >>
  /\ UNCHANGED << retrieve_runs, query, sub_queries, sub_query_results, retrieved_chunks,
                  retrieval_scores, reranked_chunks, web_search_results,
                  use_web_search, needs_iteration, iteration_count,
                  max_iterations, enable_reflection >>

(***************************************************************************)
(* The workflow: invoke_rag's initial state and create_rag_graph's edges   *)
(***************************************************************************)
InitRAG ==
  /\ pc = "decompose_query"
  /\ last_node = "START"
  /\ step_parity = 0
  /\ query = "q0"
  /\ sub_queries = <<>>
  /\ sub_query_results = <<>>
  /\ retrieved_chunks = <<>>
  /\ retrieval_scores = <<>>
  /\ reranked_chunks = <<>>
  /\ web_search_results = <<>>
  /\ use_web_search = FALSE
  /\ needs_iteration = FALSE
  /\ iteration_count = 0
  /\ final_answer = "None"
  /\ prompt_chunks = <<>>
  /\ retrieve_runs = 0
  /\ history = InitHistory
  /\ max_iterations \in 0..MaxIterBound
  /\ enable_reflection \in BOOLEAN

NextRAG(counted) ==
  \/ decompose_query(counted)
  \/ retrieve(counted)
  \/ aggregate_results(counted)
  \/ rerank(counted)
  \/ web_search(counted)
  \/ reflect(counted)
  \/ refine_query(counted)
  \/ generate_answer(counted)

(***************************************************************************)
(* HA store (vector_store/ha_store.py), one call at a time                 *)
(***************************************************************************)
Primary == 0
Backups == 1..NumBackups
Backends == {Primary} \cup Backups
NoStore == -1
Requests == 1..NumRequests

NoWrites == [ b \in Backends |-> 0 ]

\* variant: the scan keeps the last healthy backup instead of the first
get_available_store_last(cur, h) ==
  IF h[cur] THEN [store |-> cur, current |-> cur]
  ELSE IF \E b \in Backups : h[b]
       THEN LET last == CHOOSE b \in Backups :
                          h[b] /\ \A c \in Backups : c > b => ~h[c]
            IN  [store |-> last, current |-> last]
  ELSE IF h[Primary] THEN [store |-> Primary, current |-> Primary]
  ELSE [store |-> NoStore, current |-> cur]

\* variant: a healthy primary is preferred to the current backend
get_available_store_failback(cur, h) ==
  IF h[Primary] THEN [store |-> Primary, current |-> Primary]
  ELSE IF h[cur] THEN [store |-> cur, current |-> cur]
  ELSE IF \E b \in Backups : h[b]
       THEN LET first == CHOOSE b \in Backups :
                           h[b] /\ \A c \in Backups : c < b => ~h[c]
            IN  [store |-> first, current |-> first]
  ELSE [store |-> NoStore, current |-> cur]

\* variant: falls back to the primary without checking it
get_available_store_noraise(cur, h) ==
  IF h[cur] THEN [store |-> cur, current |-> cur]
  ELSE IF \E b \in Backups : h[b]
       THEN LET first == CHOOSE b \in Backups :
                           h[b] /\ \A c \in Backups : c < b => ~h[c]
            IN  [store |-> first, current |-> first]
  ELSE [store |-> Primary, current |-> Primary]

\* _get_available_store: the backend returned (NoStore when it raises) and
\* the value of self.current_store afterwards
get_available_store(cur, h) ==
  IF h[cur] THEN [store |-> cur, current |-> cur]
  ELSE IF \E b \in Backups : h[b]
       THEN LET first == CHOOSE b \in Backups :
                           h[b] /\ \A c \in Backups : c < b => ~h[c]
            IN  [store |-> first, current |-> first]
  ELSE IF h[Primary] THEN [store |-> Primary, current |-> Primary]
  ELSE [store |-> NoStore, current |-> cur]

\* variant: one try/except around the whole replication loop, so that the
\* first raising backup ends the replication
ha_write_outcome_stop(store, h, main_raises, rep_raises) ==
  IF main_raises
  THEN [ret |-> "write_error",
        writes |-> [NoWrites EXCEPT ![store] = 1],
        rep_failed |-> {}]
  ELSE LET reached(b) == \A c \in Backups : (c < b /\ h[c]) => c \notin rep_raises
       IN  [ret |-> "ok",
            writes |-> [ b \in Backends |-> (IF b = store THEN 1 ELSE 0)
                          + (IF b \in Backups /\ h[b] /\ reached(b) THEN 1 ELSE 0) ],
            rep_failed |-> { b \in rep_raises : h[b] /\ reached(b) }]

\* a write call after _get_available_store returned store: the write on
\* store, then the loop "for backup in self.backups" with its try/except.
\* main_raises: the write on store raises; rep_raises: the backups whose
\* replicated write raises
ha_write_outcome(store, h, main_raises, rep_raises) ==
  IF main_raises
  THEN [ret |-> "write_error",
        writes |-> [NoWrites EXCEPT ![store] = 1],
        rep_failed |-> {}]
  ELSE [ret |-> "ok",
        writes |-> [ b \in Backends |-> (IF b = store THEN 1 ELSE 0)
                                        + (IF b \in Backups /\ h[b] THEN 1 ELSE 0) ],
        rep_failed |-> { b \in rep_raises : h[b] }]

\* add_documents and delete have the same shape
ha_write_call(name, main_raises, rep_raises) ==
  /\ LET sel == get_available_store(current_store, healthy)
         out == ha_write_outcome(sel.store, healthy, main_raises, rep_raises)
     IN  /\ current_store' = sel.current
         /\ served' = sel.store
         /\ IF sel.store = NoStore
            THEN /\ ret' = "unavailable"
                 /\ writes' = NoWrites
                 /\ rep_failed' = {}
            ELSE /\ ret' = out.ret
                 /\ writes' = out.writes
                 /\ rep_failed' = out.rep_failed
  /\ last_op' = name
  /\ UNCHANGED << healthy, ragVars, callVars, reqVars >>

ha_write(name) ==
  \E main_raises \in BOOLEAN, rep_raises \in SUBSET Backups :
    ha_write_call(name, main_raises, rep_raises)

\* search and get_collection_info have the same shape
ha_read(name) ==
  /\ \E raises \in BOOLEAN :
       LET sel == get_available_store(current_store, healthy)
       IN  /\ current_store' = sel.current
           /\ served' = sel.store
           /\ ret' = IF sel.store = NoStore THEN "unavailable"
                     ELSE IF raises THEN "read_error" ELSE "ok"
  /\ writes' = NoWrites
  /\ rep_failed' = {}
  /\ last_op' = name
  /\ UNCHANGED << healthy, ragVars, callVars, reqVars >>

add_documents == ha_write("add_documents")
delete == ha_write("delete")
search == ha_read("search")
get_collection_info == ha_read("get_collection_info")

\* variant: only the primary is asked
health_check_result_primary(h) ==
  IF h[Primary] THEN "healthy" ELSE "unhealthy"

health_check_result(h) ==
  IF h[Primary] \/ \E b \in Backups : h[b] THEN "healthy" ELSE "unhealthy"

health_check ==
  /\ ret' = health_check_result(healthy)
  /\ last_op' = "health_check"
  /\ served' = NoStore
  /\ writes' = NoWrites
  /\ rep_failed' = {}
  /\ UNCHANGED << healthy, current_store, ragVars, callVars, reqVars >>

\* a backend goes down or comes back
health_change ==
  /\ \E b \in Backends : healthy' = [healthy EXCEPT ![b] = ~healthy[b]]
  /\ UNCHANGED << current_store, opVars, ragVars, callVars, reqVars >>

(***************************************************************************)
(* HA store under concurrent requests: the same calls, one backend call    *)
(* (health check, read, write) per step; the class takes no lock           *)
(***************************************************************************)
RoutedOps == {"add_documents", "search", "delete", "get_collection_info"}
WriteOps == {"add_documents", "delete"}

Finish(r) ==
  /\ rpc' = [rpc EXCEPT ![r] = "idle"]
  /\ rop' = [rop EXCEPT ![r] = "none"]
  /\ rstore' = [rstore EXCEPT ![r] = NoStore]
  /\ rscan' = [rscan EXCEPT ![r] = 0]

\* a request enters add_documents, search, delete or get_collection_info
req_begin(r) ==
  /\ rpc[r] = "idle"
  /\ \E op \in RoutedOps : rop' = [rop EXCEPT ![r] = op]
  /\ rpc' = [rpc EXCEPT ![r] = "check_current"]
  /\ UNCHANGED << rstore, rscan, storeVars, opVars, ragVars, callVars >>

\* if self.current_store.health_check():
req_check_current(r) ==
  /\ rpc[r] = "check_current"
  /\ IF healthy[current_store]
     THEN /\ rpc' = [rpc EXCEPT ![r] = "return_current"]
          /\ UNCHANGED rscan
     ELSE /\ rpc' = [rpc EXCEPT ![r] = "scan"]
          /\ rscan' = [rscan EXCEPT ![r] = 1]
  /\ UNCHANGED << rop, rstore, storeVars, opVars, ragVars, callVars >>

\* return self.current_store
req_return_current(r) ==
  /\ rpc[r] = "return_current"
  /\ rstore' = [rstore EXCEPT ![r] = current_store]
  /\ rpc' = [rpc EXCEPT ![r] = "call"]
  /\ UNCHANGED << rop, rscan, storeVars, opVars, ragVars, callVars >>

\* one iteration of "for backup in self.backups" in _get_available_store
req_scan_backup(r) ==
  /\ rpc[r] = "scan"
  /\ IF rscan[r] > NumBackups
     THEN /\ rpc' = [rpc EXCEPT ![r] = "check_primary"]
          /\ UNCHANGED << rstore, rscan, current_store >>
     ELSE IF healthy[rscan[r]]
     THEN /\ current_store' = rscan[r]
          /\ rstore' = [rstore EXCEPT ![r] = rscan[r]]
          /\ rpc' = [rpc EXCEPT ![r] = "call"]
          /\ UNCHANGED rscan
     ELSE /\ rscan' = [rscan EXCEPT ![r] = rscan[r] + 1]
          /\ UNCHANGED << rpc, rstore, current_store >>
  /\ UNCHANGED << rop, healthy, opVars, ragVars, callVars >>

\* if self.primary.health_check(): ... else raise
req_check_primary(r) ==
  /\ rpc[r] = "check_primary"
  /\ IF healthy[Primary]
     THEN /\ current_store' = Primary
          /\ rstore' = [rstore EXCEPT ![r] = Primary]
          /\ rpc' = [rpc EXCEPT ![r] = "call"]
          /\ UNCHANGED << rop, rscan >>
     ELSE /\ Finish(r)
          /\ UNCHANGED current_store
  /\ UNCHANGED << healthy, opVars, ragVars, callVars >>

\* the read or write on the local variable store
req_call(r) ==
  /\ rpc[r] = "call"
  /\ \E raises \in BOOLEAN :
       IF rop[r] \in WriteOps /\ ~raises
       THEN /\ rpc' = [rpc EXCEPT ![r] = "replicate"]
            /\ rscan' = [rscan EXCEPT ![r] = 1]
            /\ UNCHANGED << rop, rstore >>
       ELSE Finish(r)
  /\ UNCHANGED << storeVars, opVars, ragVars, callVars >>

\* one iteration of the replication loop of a write
req_replicate(r) ==
  /\ rpc[r] = "replicate"
  /\ IF rscan[r] > NumBackups
     THEN Finish(r)
     ELSE /\ rscan' = [rscan EXCEPT ![r] = rscan[r] + 1]
          /\ UNCHANGED << rpc, rop, rstore >>
  /\ UNCHANGED << storeVars, opVars, ragVars, callVars >>

(***************************************************************************)
(* Functions taken alone: one call, arguments from bounded sets            *)
(***************************************************************************)
ScorePool == {20, 30, 50, 60, 90}
Thresholds == {25, 40, 60, 95}
\* search results of up to MaxFilterHits hits, the i-th with a content of its own
FilterInputs ==
  UNION { { [ i \in 1..n |-> [content |-> << Run("h", i) >>, score |-> sc[i]] ] :
              sc \in [1..n -> ScorePool] } : n \in 0..MaxFilterHits }

\* the filter of retrieve, for a similarity_threshold thr
call_FilterHits ==
  /\ fn_name = "none"
  /\ \E hits \in FilterInputs, thr \in Thresholds :
       /\ fn_args' = [hits |-> hits, thr |-> thr]
       /\ fn_out' = FilterHits(hits, thr)
  /\ fn_name' = "FilterHits"
  /\ UNCHANGED << ragVars, storeVars, opVars, reqVars >>

\* response lines of up to MaxLineLen characters
LinePool == UNION { [1..n -> LineChars] : n \in 0..MaxLineLen }
\* lines that stand before or after the line looked at
OtherLines == { <<"a">>, <<"1", ".", "a">>, << >> }
\* responses of one or two lines
ParseInputs ==
  { << l >> : l \in LinePool } \cup
  { << l, o >> : l \in LinePool, o \in OtherLines } \cup
  { << o, l >> : l \in LinePool, o \in OtherLines }

\* the line loop of decompose_query on a response
call_parse_response ==
  /\ fn_name = "none"
  /\ \E lines \in ParseInputs :
       /\ fn_args' = [lines |-> lines]
       /\ fn_out' = parse_response(lines)
  /\ fn_name' = "parse_response"
  /\ UNCHANGED << ragVars, storeVars, opVars, reqVars >>

\* retrieved chunks of up to MaxRerankInput chunks, the i-th with a content of
\* its own
RerankInputs ==
  { [ i \in 1..n |-> [content |-> << Run("c", i) >>, score |-> 50, sub_query |-> "a"] ] :
      n \in 0..MaxRerankInput }

\* what rerank returns for reranked_chunks
call_rerank ==
  /\ fn_name = "none"
  /\ \E rc \in RerankInputs, enabled \in BOOLEAN, llm_ok \in BOOLEAN,
        tokens \in RankResponses :
       /\ fn_args' = [rc |-> rc, enabled |-> enabled, llm_ok |-> llm_ok,
                      tokens |-> tokens]
       /\ fn_out' = rerank_result(rc, enabled, llm_ok, tokens)
  /\ fn_name' = "rerank"
  /\ UNCHANGED << ragVars, storeVars, opVars, reqVars >>

(***************************************************************************)
(* Backend adapters: add_documents (vector_store/*_store.py)               *)
(***************************************************************************)
ChunkIds == [ i \in 1..(MaxChunks + 1) |-> [text |-> "id", n |-> i] ]
\* uuid4() made for the chunk at position i
Uuid4(i) == [text |-> "uuid4", n |-> i]
\* embedding: "none" (None), "short" (not config.embedding.dimensions long),
\* "ok"; is_uuid: the id parses as a UUID
ChunkLists ==
  UNION { { [ i \in 1..n |-> [id |-> ChunkIds[i], pos |-> i,
                              embedding |-> e[i], is_uuid |-> u[i]] ] :
              e \in [1..n -> {"none", "short", "ok"}], u \in [1..n -> BOOLEAN] } :
          n \in 0..MaxChunks }
Raised == [raised |-> TRUE, ids |-> <<>>, written |-> {}]
Returned(ids, written) == [raised |-> FALSE, ids |-> ids, written |-> written]

\* The batches of objs from position i on. many_raises: insert_many raises
\* (and writes nothing); bad: positions of the chunks whose single insert
\* raises.
RECURSIVE weaviate_insert_batches(_, _, _, _)
weaviate_insert_batches(objs, i, many_raises, bad) ==
  IF i > Len(objs) THEN [total_inserted |-> 0, written |-> {}]
  ELSE LET batch == SubSeq(objs, i, Min(i + batch_size - 1, Len(objs)))
           done == IF many_raises
                   THEN SelectSeq(batch, LAMBDA o : o.pos \notin bad)
                   ELSE batch
           rest == weaviate_insert_batches(objs, i + batch_size, many_raises, bad)
       IN  [total_inserted |-> Len(done) + rest.total_inserted,
            written |-> { done[k].uuid : k \in DOMAIN done } \cup rest.written]

\* WeaviateStore.add_documents. client_ok: the client and the collection are
\* obtained.
weaviate_add_documents_result(chunks, client_ok, many_raises, bad) ==
  LET usable == SelectSeq(chunks, LAMBDA c : c.embedding = "ok")
      objects_to_insert ==
        [ k \in DOMAIN usable |->
            [uuid |-> IF usable[k].is_uuid THEN usable[k].id ELSE Uuid4(usable[k].pos),
             pos |-> usable[k].pos] ]
      inserted_ids == [ k \in DOMAIN objects_to_insert |-> objects_to_insert[k].uuid ]
      b == weaviate_insert_batches(objects_to_insert, 1, many_raises, bad)
  IN  IF ~client_ok THEN Raised
      ELSE IF objects_to_insert = <<>> THEN Returned(<<>>, {})
      ELSE Returned(Prefix(inserted_ids, b.total_inserted), b.written)

\* QdrantStore.add_documents. upsert_ok: client.upsert returns, all points
\* written; else it raises, none written.
qdrant_add_documents_result(chunks, upsert_ok) ==
  LET points == SelectSeq(chunks, LAMBDA c : c.embedding # "none")
      ids == [ k \in DOMAIN points |-> points[k].id ]
  IN  IF points = <<>> THEN Returned(<<>>, {})
      ELSE IF upsert_ok THEN Returned(ids, Range(ids))
      ELSE Raised

\* MilvusStore.add_documents. outcome: "ok", or which of collection.insert
\* and collection.flush raises.
MilvusOutcomes == {"ok", "insert_raises", "flush_raises"}
milvus_add_documents_result(chunks, outcome) ==
  LET rows == SelectSeq(chunks, LAMBDA c : c.embedding # "none")
      ids == [ k \in DOMAIN rows |-> rows[k].id ]
  IN  IF rows = <<>> THEN Returned(<<>>, {})
      ELSE IF outcome = "ok" THEN Returned(ids, Range(ids))
      ELSE IF outcome = "flush_raises" THEN [Raised EXCEPT !.written = Range(ids)]
      ELSE Raised

weaviate_add_documents ==
  /\ fn_name = "none"
  /\ \E chunks \in ChunkLists, client_ok \in BOOLEAN, many_raises \in BOOLEAN,
        bad \in SUBSET (1..MaxChunks) :
       /\ fn_args' = [chunks |-> chunks, client_ok |-> client_ok,
                      many_raises |-> many_raises, bad |-> bad]
       /\ fn_out' = weaviate_add_documents_result(chunks, client_ok, many_raises, bad)
  /\ fn_name' = "WeaviateStore.add_documents"
  /\ UNCHANGED << ragVars, storeVars, opVars, reqVars >>

qdrant_add_documents ==
  /\ fn_name = "none"
  /\ \E chunks \in ChunkLists, upsert_ok \in BOOLEAN :
       /\ fn_args' = [chunks |-> chunks, upsert_ok |-> upsert_ok]
       /\ fn_out' = qdrant_add_documents_result(chunks, upsert_ok)
  /\ fn_name' = "QdrantStore.add_documents"
  /\ UNCHANGED << ragVars, storeVars, opVars, reqVars >>

milvus_add_documents ==
  /\ fn_name = "none"
  /\ \E chunks \in ChunkLists, outcome \in MilvusOutcomes :
       /\ fn_args' = [chunks |-> chunks, outcome |-> outcome]
       /\ fn_out' = milvus_add_documents_result(chunks, outcome)
  /\ fn_name' = "MilvusStore.add_documents"
  /\ UNCHANGED << ragVars, storeVars, opVars, reqVars >>

(***************************************************************************)
(* Backend adapters: search (vector_store/*_store.py)                      *)
(***************************************************************************)
\* Objects of a collection, nearest to the query vector first. doc_id is a
\* payload field the Qdrant and Weaviate collections keep (Milvus has no such
\* field); distance in hundredths, the first object at distance 0 of the
\* query vector.
StoredObjects ==
  << [id |-> 1, user_id |-> "u1", doc_type |-> "pdf", doc_id |-> "d1", distance |-> 0],
     [id |-> 2, user_id |-> "u2", doc_type |-> "pdf", doc_id |-> "d2", distance |-> 20],
     [id |-> 3, user_id |-> "u1", doc_type |-> "txt", doc_id |-> "d2", distance |-> 30] >>
Collections == SubSeqsOf(StoredObjects)
MetaFields == {"user_id", "doc_type", "doc_id"}
MetaValues == {"u1", "pdf", "d2"}
\* filter_dict: None (the empty mapping here) or a mapping on some fields
FilterDicts == UNION { [K -> MetaValues] : K \in SUBSET MetaFields }
SearchRaised == [raised |-> TRUE, results |-> <<>>]
Found(results) == [raised |-> FALSE, results |-> results]
Matches(obj, f, keys) == \A k \in keys \cap DOMAIN f : obj[k] = f[k]
ScoreOf(obj) == 100 - obj.distance

\* obj.metadata.distance is None
NoDistance == -1
\* the collections as Weaviate returns them: missing = the id of the object
\* that comes without a distance, 0 for none
WeaviateCollections ==
  { [ i \in DOMAIN coll |->
        IF coll[i].id = missing THEN [coll[i] EXCEPT !.distance = NoDistance]
        ELSE coll[i] ] :
      coll \in Collections, missing \in 0..Len(StoredObjects) }
\* distance = obj.metadata.distance if obj.metadata.distance else 1.0;
\* score = 1.0 - distance. None and 0.0 are both false.
weaviate_score(distance) ==
  LET d == IF distance = NoDistance \/ distance = 0 THEN 100 ELSE distance
  IN  100 - d

\* QdrantStore.search: every key of filter_dict is a must-condition
qdrant_search_result(coll, f, top_k, search_ok) ==
  LET hits == Prefix(SelectSeq(coll, LAMBDA o : Matches(o, f, DOMAIN f)), top_k)
  IN  IF ~search_ok THEN SearchRaised
      ELSE Found([ i \in DOMAIN hits |->
                   [id |-> hits[i].id,
                    metadata |-> [user_id |-> hits[i].user_id,
                                  doc_type |-> hits[i].doc_type,
                                  doc_id |-> hits[i].doc_id],
                    score |-> ScoreOf(hits[i])] ])

\* MilvusStore.search: only user_id and doc_type become conditions of expr
milvus_search_result(coll, f, top_k, search_ok) ==
  LET hits == Prefix(SelectSeq(coll, LAMBDA o : Matches(o, f, {"user_id", "doc_type"})),
                     top_k)
  IN  IF ~search_ok THEN SearchRaised
      ELSE Found([ i \in DOMAIN hits |->
                   [id |-> hits[i].id,
                    metadata |-> [user_id |-> hits[i].user_id,
                                  doc_type |-> hits[i].doc_type],
                    score |-> ScoreOf(hits[i])] ])

\* WeaviateStore.search: near_vector without a filter on top_k * 5
\* candidates (top_k without conditions), then the candidates are compared
\* with the user_id and doc_type of filter_dict, and cut to top_k
weaviate_search_result(coll, f, top_k, search_ok) ==
  LET where_filter == DOMAIN f \cap {"user_id", "doc_type"} # {}
      candidate_limit == IF where_filter THEN top_k * 5 ELSE top_k
      candidates == Prefix(coll, candidate_limit)
      kept == IF where_filter
              THEN SelectSeq(candidates, LAMBDA o : Matches(o, f, {"user_id", "doc_type"}))
              ELSE candidates
      hits == IF where_filter THEN Prefix(kept, top_k) ELSE kept
  IN  IF ~search_ok THEN SearchRaised
      ELSE Found([ i \in DOMAIN hits |->
                   [id |-> hits[i].id,
                    metadata |-> [user_id |-> hits[i].user_id,
                                  doc_type |-> hits[i].doc_type,
                                  doc_id |-> hits[i].doc_id],
                    score |-> weaviate_score(hits[i].distance)] ])

qdrant_search ==
  /\ fn_name = "none"
  /\ \E coll \in Collections, f \in FilterDicts, top_k \in 1..MaxTopK,
        search_ok \in BOOLEAN :
       /\ fn_args' = [coll |-> coll, filter_dict |-> f, top_k |-> top_k,
                      search_ok |-> search_ok]
       /\ fn_out' = qdrant_search_result(coll, f, top_k, search_ok)
  /\ fn_name' = "QdrantStore.search"
  /\ UNCHANGED << ragVars, storeVars, opVars, reqVars >>

milvus_search ==
  /\ fn_name = "none"
  /\ \E coll \in Collections, f \in FilterDicts, top_k \in 1..MaxTopK,
        search_ok \in BOOLEAN :
       /\ fn_args' = [coll |-> coll, filter_dict |-> f, top_k |-> top_k,
                      search_ok |-> search_ok]
       /\ fn_out' = milvus_search_result(coll, f, top_k, search_ok)
  /\ fn_name' = "MilvusStore.search"
  /\ UNCHANGED << ragVars, storeVars, opVars, reqVars >>

weaviate_search ==
  /\ fn_name = "none"
  /\ \E coll \in WeaviateCollections, f \in FilterDicts, top_k \in 1..MaxTopK,
        search_ok \in BOOLEAN :
       /\ fn_args' = [coll |-> coll, filter_dict |-> f, top_k |-> top_k,
                      search_ok |-> search_ok]
       /\ fn_out' = weaviate_search_result(coll, f, top_k, search_ok)
  /\ fn_name' = "WeaviateStore.search"
  /\ UNCHANGED << ragVars, storeVars, opVars, reqVars >>

(***************************************************************************)
(* Initial states and specifications                                       *)
(***************************************************************************)
InitStore ==
  /\ healthy \in [Backends -> BOOLEAN]
  /\ current_store = Primary

InitOp ==
  /\ last_op = "none"
  /\ ret = "none"
  /\ served = NoStore
  /\ writes = NoWrites
  /\ rep_failed = {}

InitReq ==
  /\ rpc = [ r \in Requests |-> "idle" ]
  /\ rop = [ r \in Requests |-> "none" ]
  /\ rstore = [ r \in Requests |-> NoStore ]
  /\ rscan = [ r \in Requests |-> 0 ]

\* a workflow without HA-store traffic
InitIdleStore ==
  /\ healthy = [ b \in Backends |-> TRUE ]
  /\ current_store = Primary
  /\ InitOp
  /\ InitReq

\* an HA store without a running workflow
InitIdleRAG ==
  /\ InitRAG
  /\ max_iterations = 0
  /\ enable_reflection = TRUE

\* no function called yet; a function taken alone is called once
InitIdleCall ==
  /\ fn_name = "none"
  /\ fn_args = <<>>
  /\ fn_out = <<>>

Init == InitRAG /\ InitIdleStore /\ InitIdleCall
Next == NextRAG(FALSE)
Spec == Init /\ [][Next]_vars

\* the same workflow with the steps counted; the interpreter runs the next
\* node as long as there is one
NextCounted == NextRAG(TRUE)
SpecFair == Init /\ [][NextCounted]_vars /\ WF_vars(NextCounted)

InitHA == InitIdleRAG /\ InitStore /\ InitOp /\ InitReq /\ InitIdleCall
NextHA ==
  \/ add_documents
  \/ delete
  \/ search
  \/ get_collection_info
  \/ health_check
  \/ health_change
SpecHA == InitHA /\ [][NextHA]_vars

InitHAConc == InitIdleRAG /\ InitStore /\ InitOp /\ InitReq /\ InitIdleCall
NextHAConc ==
  \/ \E r \in Requests : req_begin(r)
  \/ \E r \in Requests : req_check_current(r)
  \/ \E r \in Requests : req_return_current(r)
  \/ \E r \in Requests : req_scan_backup(r)
  \/ \E r \in Requests : req_check_primary(r)
  \/ \E r \in Requests : req_call(r)
  \/ \E r \in Requests : req_replicate(r)
  \/ health_change
SpecHAConc == InitHAConc /\ [][NextHAConc]_vars

InitFn == InitIdleRAG /\ InitIdleStore /\ InitIdleCall
NextFn ==
  \/ call_FilterHits
  \/ call_rerank
  \/ call_parse_response
SpecFn == InitFn /\ [][NextFn]_vars

InitAdapters == InitIdleRAG /\ InitIdleStore /\ InitIdleCall
NextAdapters ==
  \/ weaviate_add_documents
  \/ qdrant_add_documents
  \/ milvus_add_documents
  \/ weaviate_search
  \/ qdrant_search
  \/ milvus_search
SpecAdapters == InitAdapters /\ [][NextAdapters]_vars

(***************************************************************************)
(* Properties                                                              *)
(***************************************************************************)
\* C1: in every step iteration_count does not decrease, and in every state
\* it is at most max_iterations (max_iterations >= 0, initial count 0)
C1_IterationBounded ==
  /\ [](iteration_count <= max_iterations)
  /\ [][iteration_count' >= iteration_count]_vars
C1_Witness ==
  /\ last_node = "refine_query"
  /\ iteration_count = max_iterations
  /\ max_iterations = MaxIterBound

\* C2: a workflow started at decompose_query eventually executes
\* generate_answer and reaches END, whatever the outcomes of its calls
C2_Terminates == <>(pc = "END" /\ last_node = "generate_answer")

\* C3: after reflect the router selects refine_query exactly when
\* needs_iteration holds and iteration_count < max_iterations, and
\* generate_answer otherwise
C3_ReflectRouting ==
  last_node = "reflect" =>
    IF needs_iteration /\ iteration_count < max_iterations
    THEN pc = "refine_query"
    ELSE pc = "generate_answer"
C3_Witness ==
  /\ last_node = "reflect"
  /\ pc = "refine_query"
  /\ iteration_count = MaxIterBound - 1

\* C4: after retrieve with non-empty sub_queries the router selects retrieve
\* exactly when some element of sub_queries is not yet a key of
\* sub_query_results, and aggregate_results exactly when every element is
C4_RetrieveRouting ==
  (last_node = "retrieve" /\ sub_queries # <<>>) =>
    IF \E i \in DOMAIN sub_queries : sub_queries[i] \notin Keys(sub_query_results)
    THEN pc = "retrieve"
    ELSE pc = "aggregate_results"

IsRouted == add_documents \/ delete \/ search \/ get_collection_info
IsWrite == add_documents \/ delete
NoHealthyBackup == \A b \in Backups : ~healthy[b]
IsFirstHealthyBackup(b) ==
  b \in Backups /\ healthy[b] /\ \A c \in Backups : c < b => ~healthy[c]

\* C5: a call is served by the current backend when that is healthy, else by
\* the first healthy backup in list order, which becomes current, else by
\* the primary when that is healthy, which becomes current. With the primary
\* current and unhealthy and the first backup healthy, search is served by
\* the first backup, and a health_check that follows while the serving
\* backend is still healthy returns true
C5_Routing ==
  [][ /\ IsRouted =>
           /\ healthy[current_store] =>
                (served' = current_store /\ current_store' = current_store)
           /\ (~healthy[current_store] /\ ~NoHealthyBackup) =>
                (IsFirstHealthyBackup(served') /\ current_store' = served')
           /\ (~healthy[current_store] /\ NoHealthyBackup /\ healthy[Primary]) =>
                (served' = Primary /\ current_store' = Primary)
      /\ (search /\ current_store = Primary /\ ~healthy[Primary] /\ healthy[1]) =>
           (served' = 1 /\ current_store' = 1)
      /\ (health_check /\ last_op = "search" /\ served # NoStore /\ healthy[served]) =>
           ret' = "healthy"
    ]_vars
C5_Witness ==
  /\ last_op = "search"
  /\ ret = "ok"
  /\ served = 1
  /\ current_store = 1
  /\ ~healthy[Primary]
  /\ healthy[2]

\* C6: when the current backend, every backup and the primary are all
\* unhealthy, a call fails with the all-backends-unavailable error, issues
\* no read or write, and leaves current_store unchanged
C6_AllUnavailable ==
  [][ (IsRouted /\ \A b \in Backends : ~healthy[b]) =>
        /\ ret' = "unavailable"
        /\ served' = NoStore
        /\ writes' = NoWrites
        /\ current_store' = current_store
    ]_vars
C6_Witness ==
  /\ last_op = "add_documents"
  /\ ret = "unavailable"
  /\ current_store = 2
  /\ \A b \in Backends : ~healthy[b]

\* C7: after a successful write on the current backend the same write is
\* attempted on every other backend whose health check is true, the primary
\* included when current is a backup
C7_ReplicatesToOthers ==
  [][ (IsWrite /\ ret' = "ok") =>
        \A b \in Backends \ {served'} : healthy[b] => writes'[b] >= 1
    ]_vars

\* C8: a failure of the write on the current backend reaches the caller and
\* no replicated write is attempted; a failure of a replicated write does
\* not reach the caller, does not stop the replication to the remaining
\* backups, and the call returns the result of the current backend's write
C8_WriteFailures ==
  [][ \A name \in WriteOps, main_raises \in BOOLEAN, rep_raises \in SUBSET Backups :
        (ha_write_call(name, main_raises, rep_raises) /\ served' # NoStore) =>
          /\ main_raises =>
               /\ ret' = "write_error"
               /\ writes' = [NoWrites EXCEPT ![served'] = 1]
          /\ ~main_raises =>
               /\ ret' = "ok"
               /\ \A b \in Backups : healthy[b] => writes'[b] >= 1
               /\ rep_failed' = { b \in rep_raises : healthy[b] }
    ]_vars
C8_Witness ==
  /\ last_op = "delete"
  /\ ret = "ok"
  /\ 1 \in rep_failed
  /\ writes[2] >= 1

\* C9: in every interleaving of concurrent requests, the backend a request
\* issues its read or write to is current_store at the moment the call starts
C9_AtomicSwitch ==
  \A r \in Requests : rpc[r] = "call" => rstore[r] = current_store

\* C10: health_check returns true exactly when the primary or at least one
\* backup is healthy, whichever backend is current, and changes neither
\* current_store nor a backend
C10_HealthCheck ==
  [][ health_check =>
        /\ ret' = (IF \E b \in Backends : healthy[b] THEN "healthy" ELSE "unhealthy")
        /\ current_store' = current_store
        /\ healthy' = healthy
    ]_vars
C10_Witness ==
  /\ last_op = "health_check"
  /\ ret = "healthy"
  /\ current_store = Primary
  /\ ~healthy[Primary]

\* C11: the filter of retrieve keeps exactly the hits with score >= the
\* similarity threshold; when that keeps none of a non-empty result it keeps
\* exactly the hits with score >= max(0.75 x best score, 0.3). For the
\* scores 0.9, 0.5, 0.2: threshold 0.6 keeps 0.9 alone; threshold 0.95 makes
\* the dynamic threshold 0.675 and keeps 0.9 alone
C11_Threshold ==
  fn_name = "FilterHits" =>
    LET hits == fn_args.hits
        thr == fn_args.thr
        best == CHOOSE b \in Range(Scores(hits)) : \A x \in Range(Scores(hits)) : x <= b
        static == SelectSeq(hits, LAMBDA h : h.score >= thr)
        dynamic == SelectSeq(hits, LAMBDA h : 100 * h.score >= 75 * best /\ h.score >= 30)
    IN  /\ fn_out = IF static = <<>> /\ hits # <<>> THEN dynamic ELSE static
        /\ (Scores(hits) = <<90, 50, 20>> /\ thr = 60) => Scores(fn_out) = <<90>>
        /\ (Scores(hits) = <<90, 50, 20>> /\ thr = 95) =>
             /\ 1000 * dynamic_threshold_scaled(hits) = 675 * 100 * DynamicRatioDen
             /\ Scores(fn_out) = <<90>>
C11_Witness ==
  /\ fn_name = "FilterHits"
  /\ Scores(fn_args.hits) = <<90, 50, 20>>
  /\ fn_args.thr = 95
  /\ Scores(fn_out) = <<90>>

\* the i-th character of a text ("" past its end)
RECURSIVE CharAt(_, _)
CharAt(text, i) ==
  IF text = <<>> THEN ""
  ELSE IF i <= Head(text).n THEN Head(text).ch
       ELSE CharAt(Tail(text), i - Head(text).n)
SamePrefix(a, b) == \A i \in 1..100 : CharAt(a, i) = CharAt(b, i)

\* C12: aggregate_results outputs the concatenation of the values of
\* sub_query_results in insertion order without the chunks whose first 100
\* content characters equal those of an earlier chunk, so the output is
\* unique by that prefix; use_web_search is true exactly when it is empty
C12_Aggregate ==
  last_node = "aggregate_results" =>
    LET all == Flatten(sub_query_results)
        kept == { i \in DOMAIN all :
                    \A j \in 1..(i - 1) : ~SamePrefix(all[j].content, all[i].content) }
        kth(k) == CHOOSE i \in kept : Cardinality({ j \in kept : j <= i }) = k
    IN  /\ Len(retrieved_chunks) = Cardinality(kept)
        /\ \A k \in DOMAIN retrieved_chunks : retrieved_chunks[k] = all[kth(k)]
        /\ \A k, l \in DOMAIN retrieved_chunks :
             k # l => ~SamePrefix(retrieved_chunks[k].content, retrieved_chunks[l].content)
        /\ use_web_search = (retrieved_chunks = <<>>)
C12_Witness ==
  /\ last_node = "aggregate_results"
  /\ Len(Flatten(sub_query_results)) = 2
  /\ Flatten(sub_query_results)[1].content # Flatten(sub_query_results)[2].content
  /\ SamePrefix(Flatten(sub_query_results)[1].content,
                Flatten(sub_query_results)[2].content)
  /\ retrieved_chunks = << Flatten(sub_query_results)[1] >>
  /\ ~use_web_search

\* tokens of a ranking response that name a position of rc
ValidTokens(rc, tokens) ==
  SelectSeq(tokens, LAMBDA t : t.numeric /\ 1 <= t.value /\ t.value <= Len(rc))

\* C13: for every ranking response the output of rerank is a permutation of
\* retrieved_chunks cut to rerank_top_k: the chunks at the valid ranked
\* indices first, in ranked order, the others after them, and no position of
\* retrieved_chunks twice
C13_PermutationTruncation ==
  (fn_name = "rerank" /\ fn_args.enabled /\ fn_args.llm_ok /\ fn_args.rc # <<>>) =>
    LET rc == fn_args.rc
        valid == ValidTokens(rc, fn_args.tokens)
    IN  /\ Len(fn_out) = Min(rerank_top_k, Len(rc))
        /\ \A k \in DOMAIN fn_out : fn_out[k] \in Range(rc)
        /\ \A k \in DOMAIN fn_out : k <= Len(valid) => fn_out[k] = rc[valid[k].value]
        /\ \A k, l \in DOMAIN fn_out : k # l => fn_out[k] # fn_out[l]

\* C14: when the ranking response has no valid index (no numeric token, or
\* only indices out of range) or the LLM call fails, the output of rerank is
\* retrieved_chunks in its order cut to rerank_top_k
C14_RerankFallback ==
  (/\ fn_name = "rerank" /\ fn_args.enabled /\ fn_args.rc # <<>>
   /\ (~fn_args.llm_ok \/ ValidTokens(fn_args.rc, fn_args.tokens) = <<>>)) =>
    /\ Len(fn_out) = Min(rerank_top_k, Len(fn_args.rc))
    /\ \A k \in DOMAIN fn_out : fn_out[k] = fn_args.rc[k]
C14_Witness ==
  /\ fn_name = "rerank" /\ fn_args.enabled /\ fn_args.llm_ok
  /\ Len(fn_args.rc) > rerank_top_k
  /\ fn_args.tokens = << [numeric |-> FALSE, value |-> 0], [numeric |-> TRUE, value |-> 7] >>
  /\ fn_out = SubSeq(fn_args.rc, 1, rerank_top_k)

\* C15: in every reachable state of the workflow reranked_chunks has at most
\* rerank_top_k elements, after any number of refine iterations and also
\* when rerank passes its input through
C15_RerankedBounded == Len(reranked_chunks) <= rerank_top_k

\* C16: decompose_query returns sub_queries = [query] when the response has
\* no non-empty line and when the LLM call fails, and in every case it sets
\* sub_query_results to the empty mapping
C16_DecomposeFallback ==
  [][ \A llm_ok \in BOOLEAN, lines \in ResponseLines :
        decompose_query_call(FALSE, llm_ok, lines) =>
          /\ sub_query_results' = <<>>
          /\ (~llm_ok \/ \A i \in DOMAIN lines : lines[i] = "") =>
               sub_queries' = << query >> ]_vars
C16_Witness ==
  /\ last_node = "decompose_query"
  /\ iteration_count = 1
  /\ retrieved_chunks # <<>>
  /\ sub_queries = << query >>
  /\ sub_query_results = <<>>

\* C17: no failure of an LLM, embedding, vector-store or web-search call
\* aborts the workflow: whatever calls fail, a node hands over to a node or
\* to END, and at END final_answer is a string (the
\* generated answer, or a text describing the generation error)
C17_NoAbort ==
  (pc \notin {"decompose_query", "retrieve", "aggregate_results", "rerank",
              "web_search", "reflect", "refine_query", "generate_answer"}) =>
    (pc = "END" /\ final_answer \in {"answer", "generation error"})
C17_Witness ==
  /\ pc = "END"
  /\ final_answer = "generation error"
  /\ sub_queries # <<>>
  /\ \A i \in DOMAIN sub_query_results : sub_query_results[i].v = <<>>
  /\ use_web_search
  /\ web_search_results = <<>>
  /\ iteration_count = MaxIterBound

\* a retrieve call that works on a sub-query: one is still unprocessed
ProcessesSubQuery ==
  /\ sub_queries # <<>>
  /\ Len(sub_query_results) < Len(sub_queries)
  /\ RemainingQueries(sub_queries, sub_query_results) # <<>>

\* C18: when the embedding call or the vector search raises while retrieve
\* works on a sub-query, that sub-query is recorded in sub_query_results
\* with an empty list and the other entries stay, also when it is the last
\* unprocessed one; the workflow goes on to the next unprocessed sub-query,
\* or, none being left, to aggregate_results, and from there to web_search
\* when no chunk was retrieved
C18_RetrieveFailure ==
  /\ [][ \A hits \in SearchOutcomes :
           (ProcessesSubQuery /\ retrieve_call(FALSE, FALSE, hits)) =>
             LET cq == RemainingQueries(sub_queries, sub_query_results)[1]
             IN  /\ sub_query_results' =
                      Append(sub_query_results, [k |-> cq, v |-> <<>>])
                 /\ pc' = IF RemainingQueries(sub_queries, sub_query_results') # <<>>
                          THEN "retrieve" ELSE "aggregate_results" ]_vars
  /\ [][ (aggregate_results(FALSE) /\ Flatten(sub_query_results) = <<>>) =>
           pc' = "web_search" ]_vars

\* C19: web_search returns web_search_results = [] and hands over to the
\* next node when use_web_search is false, when the client library is not
\* available, when no API key is configured and when the search call
\* raises; a workflow with no retrieved chunk and no web result goes on to
\* generate_answer, which sets final_answer
C19_WebSearchSoftFail ==
  /\ [][ \A outcome \in WebOutcomes, results \in WebResultPool :
           (/\ web_search_call(TRUE, outcome, results)
            /\ (~use_web_search \/ outcome \in {"import_error", "no_api_key", "raised"}))
           => (web_search_results' = <<>> /\ pc' = "reflect") ]_vars
  /\ (last_node = "web_search" /\ retrieved_chunks = <<>> /\ web_search_results = <<>>)
       ~> (last_node = "generate_answer" /\ final_answer \in {"answer", "generation error"})

AdapterCalls ==
  {"WeaviateStore.add_documents", "QdrantStore.add_documents",
   "MilvusStore.add_documents"}

\* C20: add_documents of each backend adapter skips the chunks without an
\* embedding and raises nothing for them, and the ids it returns are exactly
\* the ids of the chunks it wrote: when some items of a batch fail and
\* others are written, the ids of the failed ones are left out and those of
\* the written ones are all there
C20_ReturnsWrittenIds ==
  fn_name \in AdapterCalls =>
    /\ \A i \in DOMAIN fn_args.chunks :
         fn_args.chunks[i].embedding = "none" =>
           {fn_args.chunks[i].id, Uuid4(i)} \cap (Range(fn_out.ids) \cup fn_out.written) = {}
    /\ (/\ \A i \in DOMAIN fn_args.chunks : fn_args.chunks[i].embedding = "none"
        /\ fn_name = "WeaviateStore.add_documents" => fn_args.client_ok)
       => ~fn_out.raised
    /\ ~fn_out.raised => Range(fn_out.ids) = fn_out.written

\* the backend calls of an add_documents call all return
BackendAccepts ==
  /\ fn_name = "WeaviateStore.add_documents" => (fn_args.client_ok /\ ~fn_args.many_raises)
  /\ fn_name = "QdrantStore.add_documents" => fn_args.upsert_ok
  /\ fn_name = "MilvusStore.add_documents" => fn_args.outcome = "ok"

\* C21: add_documents of each backend adapter, given a batch with a chunk
\* whose embedding has not the configured length, skips that chunk and
\* writes the well-formed chunks of the batch; the call does not fail
C21_SkipsWrongDimension ==
  (/\ fn_name \in AdapterCalls
   /\ \E i \in DOMAIN fn_args.chunks : fn_args.chunks[i].embedding = "short") =>
    /\ \A i \in DOMAIN fn_args.chunks :
         fn_args.chunks[i].embedding = "short" =>
           {fn_args.chunks[i].id, Uuid4(i)} \cap fn_out.written = {}
    /\ BackendAccepts =>
         /\ ~fn_out.raised
         /\ \A i \in DOMAIN fn_args.chunks :
              fn_args.chunks[i].embedding = "ok" =>
                {fn_args.chunks[i].id, Uuid4(i)} \cap fn_out.written # {}

SearchCalls == {"WeaviateStore.search", "QdrantStore.search", "MilvusStore.search"}

\* C22: for every adapter and every filter mapping given to search, each
\* result has, on every metadata field the filter names, the filter's value;
\* when no stored object matches, the result is empty and nothing is raised
C22_FilterExactMatch ==
  (fn_name \in SearchCalls /\ fn_args.search_ok) =>
    LET f == fn_args.filter_dict
    IN  /\ ~fn_out.raised
        /\ \A i \in DOMAIN fn_out.results : \A k \in DOMAIN f :
             /\ k \in DOMAIN fn_out.results[i].metadata
             /\ fn_out.results[i].metadata[k] = f[k]
        /\ (\A j \in DOMAIN fn_args.coll : ~Matches(fn_args.coll[j], f, DOMAIN f)) =>
             fn_out.results = <<>>

\* C23: every refine_query adds exactly 1 to iteration_count, also when the
\* LLM call fails; when the call succeeds query becomes the refined text,
\* when it fails query stays as it was
C23_RefineQuery ==
  [][ \A llm_ok \in BOOLEAN, refined \in QueryTexts :
        refine_query_call(FALSE, llm_ok, refined) =>
          /\ iteration_count' = iteration_count + 1
          /\ query' = IF llm_ok THEN refined ELSE query ]_vars
C23_Witness ==
  /\ last_node = "refine_query"
  /\ query = "q1"
  /\ iteration_count = 1

\* C24: reflect sets needs_iteration to true exactly when (the response has
\* an insufficiency marker, or retrieved_chunks is empty) and
\* iteration_count < max_iterations; to false when reflection is disabled
\* and when the LLM call fails
C24_Reflect ==
  [][ \A llm_ok \in BOOLEAN, marker \in BOOLEAN :
        reflect_call(FALSE, llm_ok, marker) =>
          needs_iteration' =
            IF ~enable_reflection \/ ~llm_ok THEN FALSE
            ELSE (marker \/ retrieved_chunks = <<>>) /\ iteration_count < max_iterations ]_vars
C24_Witness ==
  /\ last_node = "reflect"
  /\ needs_iteration
  /\ retrieved_chunks # <<>>
  /\ iteration_count < max_iterations

\* C25: every knowledge-base chunk in the prompt of generate_answer is an
\* element of retrieved_chunks as it stands when generate_answer runs: the
\* prompt takes reranked_chunks when that is non-empty and retrieved_chunks
\* otherwise, and reranked_chunks is drawn from the current retrieved_chunks
C25_PromptFromRetrieved ==
  last_node = "generate_answer" =>
    /\ prompt_chunks = IF reranked_chunks # <<>> THEN reranked_chunks
                       ELSE retrieved_chunks
    /\ \A i \in DOMAIN prompt_chunks : prompt_chunks[i] \in Range(retrieved_chunks)

\* C27: in each decomposition round retrieve runs at most len(sub_queries)
\* times before the router leaves the retrieve self-loop, for every
\* non-empty sub_queries the decomposition can produce, lists that repeat a
\* sub-query included
C27_RetrieveRunsBounded == retrieve_runs <= Len(sub_queries)

\* C26: in every reachable state every key of sub_query_results is an
\* element of sub_queries and len(sub_query_results) <= len(sub_queries);
\* between two decompose_query executions sub_query_results only gains keys:
\* no key is removed and no recorded list is replaced
C26_ResultsOfSubQueries ==
  /\ [](/\ Keys(sub_query_results) \subseteq Range(sub_queries)
        /\ Len(sub_query_results) <= Len(sub_queries))
  /\ [][ pc # "decompose_query" =>
           /\ Len(sub_query_results') >= Len(sub_query_results)
           /\ \A i \in DOMAIN sub_query_results :
                sub_query_results'[i] = sub_query_results[i] ]_vars
C26_Witness ==
  /\ last_node = "retrieve"
  /\ Len(sub_query_results) = 2
  /\ sub_query_results[1].v # <<>>
  /\ sub_query_results[2].v # <<>>

\* C28: each reflect comes right after rerank or web_search, decompose_query
\* right after each refine_query, retrieve right after decompose_query, and
\* generate_answer runs exactly once: as the last node, entered from reflect
C28_NodeOrder ==
  /\ [](pc = "reflect" => last_node \in {"rerank", "web_search"})
  /\ [](last_node = "refine_query" => pc = "decompose_query")
  /\ [](last_node = "decompose_query" => pc = "retrieve")
  /\ [](pc = "generate_answer" => last_node = "reflect")
  /\ [](last_node = "generate_answer" => pc = "END")
  /\ <>(last_node = "generate_answer")

\* positions of sub_queries at which a text occurs for the first time
FirstOccurrences(sq) == { i \in DOMAIN sq : \A j \in 1..(i - 1) : sq[j] # sq[i] }

\* C29: within one decomposition round retrieve searches the distinct
\* sub-queries in the order in which they stand in sub_queries, one per
\* retrieve invocation and each exactly once
C29_SearchOrder ==
  /\ [](LET firsts == FirstOccurrences(sub_queries)
            kth(k) == CHOOSE i \in firsts : Cardinality({ j \in firsts : j <= i }) = k
        IN  /\ Len(sub_query_results) <= Cardinality(firsts)
            /\ \A k \in DOMAIN sub_query_results :
                 sub_query_results[k].k = sub_queries[kth(k)]
            /\ pc = "aggregate_results" =>
                 Len(sub_query_results) = Cardinality(firsts))
  /\ [][ retrieve(FALSE) =>
           Len(sub_query_results') =
             IF Range(sub_queries) \subseteq Keys(sub_query_results)
             THEN Len(sub_query_results) ELSE Len(sub_query_results) + 1 ]_vars
C29_Witness ==
  /\ last_node = "retrieve"
  /\ sub_queries = << "b", "a" >>
  /\ Len(sub_query_results) = 2
  /\ sub_query_results[1].k = "b"
  /\ sub_query_results[2].k = "a"

\* C30: in every state after decompose_query has run sub_queries is
\* non-empty; the router never goes from retrieve to rerank or web_search,
\* which are entered from aggregate_results only
C30_ThroughAggregate ==
  /\ [](last_node # "START" => sub_queries # <<>>)
  /\ [](pc \in {"rerank", "web_search"} => last_node = "aggregate_results")
  /\ [][ retrieve(FALSE) => pc' \in {"retrieve", "aggregate_results"} ]_vars
C30_Witness ==
  /\ last_node = "aggregate_results"
  /\ pc = "web_search"
  /\ sub_queries = << query >>
  /\ iteration_count = 1

\* C31: web_search executes only in states where use_web_search is true and
\* retrieved_chunks is empty; rerank executes only in states where
\* retrieved_chunks is non-empty and use_web_search is false
C31_RouteMatchesState ==
  /\ pc = "web_search" => use_web_search /\ retrieved_chunks = <<>>
  /\ pc = "rerank" => retrieved_chunks # <<>> /\ ~use_web_search
C31_Witness ==
  /\ pc = "rerank"
  /\ iteration_count = 1
  /\ Len(sub_query_results) = 2
  /\ sub_query_results[1].v = <<>>

\* the dynamic-threshold fallback of retrieve triggers: the static threshold
\* keeps none of a non-empty search result
FallbackTriggers ==
  /\ fn_name = "FilterHits"
  /\ fn_args.hits # <<>>
  /\ \A i \in DOMAIN fn_args.hits : fn_args.hits[i].score < fn_args.thr

\* C32: whenever the dynamic-threshold fallback of retrieve triggers, the
\* recomputed threshold is lower than the static similarity_threshold, for
\* every similarity_threshold and every list of hit scores
C32_Relaxation ==
  FallbackTriggers =>
    dynamic_threshold_scaled(fn_args.hits) < DynamicRatioDen * fn_args.thr

\* C33: when sub_queries is non-empty a retrieve invocation changes only
\* sub_query_results: retrieved_chunks, retrieval_scores and use_web_search
\* are left unchanged, whether the search succeeds or raises
C33_RetrieveFrame ==
  [][ (retrieve(FALSE) /\ sub_queries # <<>>) =>
        UNCHANGED << retrieved_chunks, retrieval_scores, use_web_search >> ]_vars

\* C34: if reflection is enabled, every retrieval round yields zero chunks
\* and every LLM call of reflect succeeds, then refine_query has executed
\* exactly max_iterations times and decompose_query max_iterations + 1 times
\* when generate_answer runs, whatever the reflect responses and the web
\* search results were
C34_RefineCount ==
  (/\ pc = "generate_answer"
   /\ enable_reflection
   /\ history.rounds_empty
   /\ history.reflect_ok) =>
     /\ history.refine_runs = max_iterations
     /\ history.decompose_runs = max_iterations + 1
C34_Witness ==
  /\ pc = "generate_answer"
  /\ enable_reflection
  /\ history.rounds_empty
  /\ history.reflect_ok
  /\ max_iterations = MaxIterBound
  /\ history.refine_runs = MaxIterBound
  /\ web_search_results # <<>>

\* C35: when generate_answer runs, web_search_results is non-empty only if
\* web_search executed in the last retrieval round
C35_WebResultsOfLastRound ==
  (pc = "generate_answer" /\ web_search_results # <<>>) =>
    history.round_node = "web_search"

\* C36: in one add_documents or delete call of the HA store each backend,
\* primary or backup, receives the write at most once, also when the current
\* backend is one of the backups
C36_WrittenAtMostOnce ==
  last_op \in WriteOps => \A b \in Backends : writes[b] <= 1

\* C37: current_store changes only in the backend selection of an
\* operation and only to a backend whose health check returned true there;
\* while the health check of the current backend returns true current_store
\* does not change, so the store does not switch back from a backup to a
\* recovered primary until that backup and all backups have failed
C37_CurrentStoreSticky ==
  [][ /\ current_store' # current_store =>
           /\ IsRouted
           /\ healthy[current_store']
           /\ served' = current_store'
      /\ healthy[current_store] => current_store' = current_store
      /\ (current_store \in Backups /\ current_store' = Primary) =>
           /\ healthy[Primary]
           /\ \A b \in Backups : ~healthy[b]
    ]_vars
C37_Witness ==
  /\ last_op \in RoutedOps
  /\ current_store \in Backups
  /\ served = current_store
  /\ healthy[Primary]
  /\ ret = "ok"

\* an enumeration marker: digits, then "." or ")"
HasMarker(line) ==
  \E k \in 1..(Len(line) - 1) :
    /\ \A i \in 1..k : line[i] \in Digits
    /\ line[k + 1] \in {".", ")"}
\* the line without its marker and the blanks after the marker
WithoutMarker(line) ==
  LET k == CHOOSE k \in 1..(Len(line) - 1) :
             (\A i \in 1..k : line[i] \in Digits) /\ line[k + 1] \in {".", ")"}
      rest == SubSeq(line, k + 2, Len(line))
      blanks == { n \in 0..Len(rest) : \A i \in 1..n : rest[i] \in Whitespace }
      n == CHOOSE n \in blanks : \A j \in blanks : j <= n
  IN  SubSeq(rest, n + 1, Len(rest))
\* the line without the blanks at its two ends
Trimmed(line) ==
  LET inner == { i \in DOMAIN line : line[i] \notin Whitespace }
  IN  IF inner = {} THEN << >>
      ELSE SubSeq(line, CHOOSE i \in inner : \A j \in inner : i <= j,
                        CHOOSE i \in inner : \A j \in inner : i >= j)

\* C38: each non-empty line of the response, trimmed and without a leading
\* enumeration marker, is one sub-query, in response order; a line without
\* an enumeration marker is kept unchanged, also when it begins with a digit
C38_LinesToSubQueries ==
  fn_name = "parse_response" =>
    LET lines == fn_args.lines
        kept == SelectSeq([ i \in DOMAIN lines |-> Trimmed(lines[i]) ],
                          LAMBDA l : l # << >>)
    IN  fn_out = [ i \in DOMAIN kept |->
                     IF HasMarker(kept[i]) THEN WithoutMarker(kept[i]) ELSE kept[i] ]

\* C39: every hit of the Weaviate adapter's search has score = 1 - distance,
\* a missing distance counting as distance 1: distance 0 gives score 1, and
\* a hit at a smaller distance never has a lower score than one at a larger
\* distance
C39_ScoreFromDistance ==
  fn_name = "WeaviateStore.search" =>
    LET hits == fn_out.results
        dist(h) == LET o == CHOOSE o \in Range(fn_args.coll) : o.id = h.id
                   IN  IF o.distance = NoDistance THEN 100 ELSE o.distance
    IN  /\ \A i \in DOMAIN hits : hits[i].score = 100 - dist(hits[i])
        /\ \A i, j \in DOMAIN hits :
             dist(hits[i]) < dist(hits[j]) => hits[i].score >= hits[j].score

====
